---- MODULE Spec2Model ----
(***************************************************************************)
(* A model of the WARC processing pipeline: WarcRecordParser.parse, the    *)
(* orchestrator WarcProcessor.process_warc_file with its ProcessingStats,  *)
(* and the JsonWriter it streams records to.                               *)
(***************************************************************************)
EXTENDS Integers, Sequences, FiniteSets, TLC

\* ------------------------------------------------------------------------
\* Bounds of the model
\* ------------------------------------------------------------------------
\* Largest number of entries the input archive holds.
MaxEntries == 3
\* Number of processors in WarcProcessor.processors.
NumProcessors == 2
\* Largest number of write_record calls made on a writer run on its own.
MaxWrites == 3
\* Largest number of configure calls made on a writer run on its own.
MaxConfigures == 2
MaxParEntries == 3
MaxProcesses == 2
MaxStatsCalls == 4

\* ------------------------------------------------------------------------
\* Values
\* ------------------------------------------------------------------------
\* Python's None.  Every value that may be None is a record, so that it can
\* be compared with NoneV.
NoneV == [none |-> TRUE]

\* A Python str held where None may be held instead.
Str(s) == [s |-> s]

\* Exception classes, as far as the except clauses of the code tell them apart.
\* "Error" stands for any class that is no ValueError, AttributeError, URLError
\* or OSError (TypeError, RuntimeError, RecursionError, KeyError, ...).
ValueErrorV == "ValueError"
AttributeErrorV == "AttributeError"
IOErrorV == "IOError"
OtherErrorV == "Error"

\* A result that is an exception raised instead of a value returned.
Raise(cls) == [raised |-> cls]
IsRaise(v) == v \in {Raise(ValueErrorV), Raise(AttributeErrorV), Raise(IOErrorV), Raise(OtherErrorV)}

\* Timestamps: a header value is the six date-time fields and the textual
\* format they are written in; a datetime is the six fields alone.
T1 == <<2025, 1, 24, 12, 34, 56>>
T2 == <<2023, 1, 1, 0, 0, 0>>
DateHeaders ==
    { [fields |-> T1, fmt |-> "%Y-%m-%dT%H:%M:%SZ"],
      [fields |-> T2, fmt |-> "%Y-%m-%dT%H:%M:%SZ"],
      [fields |-> T1, fmt |-> "%Y-%m-%dT%H:%M:%S+00:00"] }

\* datetime.strptime(date, '%Y-%m-%dT%H:%M:%SZ')
Strptime(date) ==
    IF date.fmt = "%Y-%m-%dT%H:%M:%SZ" THEN [dt |-> date.fields] ELSE Raise(ValueErrorV)

\* URIs: what urlparse splits a string into.
U1 == [scheme |-> "http", netloc |-> "example.com", path |-> ""]
U2 == [scheme |-> "https", netloc |-> "example.org", path |-> "/a"]
URelative == [scheme |-> "", netloc |-> "", path |-> "example.com/a"]
UriHeaders == {U1, U2, URelative}

\* WarcUri.__init__ / WarcUri.from_str
WarcUri(uri) ==
    IF uri = NoneV THEN Raise(ValueErrorV)
    ELSE IF uri.scheme = "" \/ uri.netloc = "" THEN Raise(ValueErrorV)
    ELSE [uri |-> uri]

\* WarcRecordId.__init__ : any value is accepted and stored as it is, be it a
\* str, None or another WarcRecordId.
WarcRecordId(record_id) == [record_id |-> record_id]

\* WarcRecordId.__str__ returns self.record_id: Python raises TypeError
\* ("__str__ returned non-string") unless the stored value is a str.
RecordIdStrings == {"<urn:uuid:1>"}
WarcRecordIdStr(rid) ==
    IF rid.record_id \in {Str(x) : x \in RecordIdStrings} THEN rid.record_id
    ELSE Raise(OtherErrorV)

\* PayloadDigest.__init__
PayloadDigest(digest) == [digest |-> digest]

\* Content-Type header values: the segments between '/' of the part before the
\* first ';', and the parameters after it.
CtHtml == [parts |-> <<"text", "html">>, params |-> <<>>]
CtHtmlUpper == [parts |-> <<"Text", "HTML">>, params |-> << <<"Charset", "utf-8">> >>]
CtPng == [parts |-> <<"image", "png">>, params |-> <<>>]
CtNoSlash == [parts |-> <<"garbage">>, params |-> <<>>]
CtEmptySub == [parts |-> <<"text", "">>, params |-> <<>>]
ContentTypeHeaders == {CtHtml, CtHtmlUpper, CtPng, CtNoSlash, CtEmptySub}

\* str.lower() on the tokens of the model.
Lower(s) ==
    CASE s = "Text" -> "text"
      [] s = "HTML" -> "html"
      [] s = "Charset" -> "charset"
      [] s = "Content-Type" -> "content-type"
      [] s = "Content-Length" -> "content-length"
      [] OTHER -> s

\* ContentType.__init__ given a type string.
ContentType(type_str) ==
    IF Len(type_str.parts) # 2 THEN Raise(ValueErrorV)
    ELSE IF type_str.parts[1] = "" \/ type_str.parts[2] = "" THEN Raise(ValueErrorV)
    ELSE [main_type |-> Lower(type_str.parts[1]),
          subtype |-> Lower(type_str.parts[2]),
          parameters |-> [i \in 1..Len(type_str.params) |->
                             <<Lower(type_str.params[i][1]), type_str.params[i][2]>>]]

\* ContentType.__eq__ : parameters are not compared.
ContentTypeEq(a, b) == a.main_type = b.main_type /\ a.subtype = b.subtype

\* Payload bytes: "xFF" is a byte that is no valid UTF-8.
Payloads ==
    { <<>>, <<"a">>, <<"<p>", "a", "</p>">>, <<"xFF">>, <<"a", "xFF", "b">> }

\* bytes.decode("utf-8", errors="ignore"): invalid bytes are dropped.
IsValidUtf8(b) == b # "xFF"
Decode(bytes) == SelectSeq(bytes, IsValidUtf8)

\* What record.content_stream() gives: no stream, a stream whose read() raises
\* IOError, or a stream whose read() returns the payload bytes.
Streams ==
    {[kind |-> "none"], [kind |-> "ioerror"]} \cup
    {[kind |-> "bytes", data |-> p] : p \in Payloads}

\* The raw records WarcRecordParser.parse may be given (warcio ArcWarcRecord):
\* rec_headers is None or the WARC header block; http is the HTTP status line
\* of http_headers, or None when the record has no HTTP headers.
ParseInputs ==
    [ rec_type : {"response", "request"},
      http : {Str("200"), Str("404"), NoneV},
      rec_headers : {NoneV, Str("WARC/1.0")},
      record_id : {Str(x) : x \in RecordIdStrings} \cup {NoneV},
      target_uri : UriHeaders \cup {NoneV},
      date : DateHeaders \cup {NoneV},
      content_type : ContentTypeHeaders \cup {NoneV},
      stream : Streams,
      payload_digest : {Str("sha1:ABC"), NoneV} ]


\* ------------------------------------------------------------------------
\* WarcRecordParser
\* ------------------------------------------------------------------------
\* _validate_record_type without the look at the HTTP status.
ValidateRecordTypeAnyStatus(record) ==
    IF record.rec_type # "response" THEN FALSE
    ELSE record.http # NoneV

\* WarcRecordParser._validate_record_type
ValidateRecordType(record) ==
    IF record.rec_type # "response" THEN FALSE
    ELSE IF record.http = NoneV THEN FALSE
    ELSE record.http = Str("200")

\* WarcRecordParser._extract_required_fields: the tuple (record_id,
\* target_uri, date), None when the date is missing, or the exception raised.
ExtractRequiredFields(record) ==
    IF record.rec_headers = NoneV THEN Raise(AttributeErrorV)
    ELSE LET record_id == WarcRecordId(record.record_id)
             target_uri == WarcUri(record.target_uri)
         IN  IF IsRaise(target_uri) THEN target_uri
             ELSE IF record.date = NoneV THEN NoneV
             ELSE [record_id |-> record_id, target_uri |-> target_uri, date |-> record.date]

\* http_headers.get_header("Content-Type", default_type)
DefaultType == CtHtml
ContentTypeHeader(record) ==
    IF record.content_type = NoneV THEN DefaultType ELSE record.content_type

\* _extract_content with a strict decode: a payload that is no valid UTF-8
\* gives None.
ExtractContentStrict(record) ==
    LET content_type == ContentType(ContentTypeHeader(record))
    IN  IF IsRaise(content_type) THEN content_type
        ELSE IF record.stream.kind # "bytes" THEN NoneV
        ELSE IF record.stream.data = <<>> THEN NoneV
        ELSE IF Decode(record.stream.data) # record.stream.data THEN NoneV
        ELSE [content |-> Decode(record.stream.data), content_type |-> content_type]

\* WarcRecordParser._extract_content: the pair (content, content_type), None,
\* or the exception that escapes its except (AttributeError, IOError).
ExtractContent(record) ==
    LET content_type == ContentType(ContentTypeHeader(record))
    IN  IF IsRaise(content_type) THEN content_type
        ELSE IF record.stream.kind = "none" THEN NoneV
        ELSE IF record.stream.kind = "ioerror" THEN NoneV
        ELSE IF record.stream.data = <<>> THEN NoneV
        ELSE [content |-> Decode(record.stream.data), content_type |-> content_type]

\* WarcRecordParser._build_headers_dict
BuildHeadersDict(record) ==
    IF record.content_type = NoneV THEN <<>>
    ELSE << [name |-> "Content-Type", value |-> record.content_type] >>

\* WarcRecord.__init__ from direct fields: the record id is wrapped in a
\* WarcRecordId (again), a str date is parsed, the other values are kept.
WarcRecord(record_id, record_type, target_uri, date, content_type, content, headers, payload_digest) ==
    LET d == Strptime(date)
    IN  IF IsRaise(d) THEN d
        ELSE [record_id |-> WarcRecordId(record_id),
              record_type |-> record_type,
              target_uri |-> target_uri,
              date |-> d,
              content_type |-> content_type,
              content |-> content,
              headers |-> headers,
              payload_digest |-> payload_digest]

\* The body of the try block of WarcRecordParser.parse.
ParseBody(record) ==
    IF ~ValidateRecordType(record) THEN NoneV
    ELSE LET fields == ExtractRequiredFields(record)
         IN  IF IsRaise(fields) \/ fields = NoneV THEN fields
             ELSE LET content_info == ExtractContent(record)
                  IN  IF IsRaise(content_info) \/ content_info = NoneV THEN content_info
                      ELSE WarcRecord(fields.record_id, record.rec_type, fields.target_uri,
                                      fields.date, content_info.content_type,
                                      content_info.content, BuildHeadersDict(record),
                                      IF record.payload_digest = NoneV THEN NoneV
                                      ELSE PayloadDigest(record.payload_digest))

\* The exception classes the except clause of parse turns into None.
ParseCaught == {Raise(ValueErrorV)}

\* WarcRecordParser.parse: a WarcRecord, None, or the exception it lets out.
Parse(record) ==
    LET r == ParseBody(record)
    IN  IF r \in ParseCaught THEN NoneV ELSE r


\* The records the ArchiveIterator of the model yields: a well-formed HTML
\* response, and records that differ from it in one field.  warcio gives
\* every record it yields a WARC header block.
BaseEntry ==
    [ rec_type |-> "response", http |-> Str("200"), rec_headers |-> Str("WARC/1.0"),
      record_id |-> Str("<urn:uuid:1>"), target_uri |-> U1,
      date |-> [fields |-> T1, fmt |-> "%Y-%m-%dT%H:%M:%SZ"],
      content_type |-> CtHtml,
      stream |-> [kind |-> "bytes", data |-> <<"<p>", "a", "</p>">>],
      payload_digest |-> NoneV ]
IteratorEntries ==
    { e \in ParseInputs :
        /\ e.rec_headers # NoneV
        /\ e.record_id = BaseEntry.record_id
        /\ e.payload_digest = BaseEntry.payload_digest
        /\ e.target_uri \in {U1, URelative, NoneV}
        /\ e.date \in {BaseEntry.date, [fields |-> T1, fmt |-> "%Y-%m-%dT%H:%M:%S+00:00"], NoneV}
        /\ e.content_type \in {CtHtml, CtPng, CtNoSlash}
        /\ e.stream \in {[kind |-> "ioerror"]} \cup
                         {[kind |-> "bytes", data |-> p] :
                             p \in {<<"a">>, <<"<p>", "a", "</p>">>, <<"xFF">>}}
        /\ Cardinality({f \in DOMAIN e : e[f] # BaseEntry[f]}) <= 1 }

\* ------------------------------------------------------------------------
\* Processors (WarcRecordProcessor implementations)
\* ------------------------------------------------------------------------
\* Texts a processor may return; <<>> is the empty string (or None).
Texts == { <<>>, <<"a">>, <<"b">> }

\* What one processor does with one input: the value of can_process, and
\* what process returns or raises.  process is not called on a processor
\* whose can_process is False, so one outcome stands for all of them there.
ProcessorOutcomes ==
    {[text |-> t] : t \in Texts} \cup
    {Raise(ValueErrorV), Raise(AttributeErrorV), Raise(OtherErrorV)}
ProcessorBehaviours ==
    { b \in [can : BOOLEAN, out : ProcessorOutcomes] : ~b.can => b.out = [text |-> <<>>] }

\* The exception classes the except clauses of WarcProcessor catch.
RecordCaught == {Raise(ValueErrorV), Raise(AttributeErrorV)}

\* A call made on processor i: its can_process or its process.
CanProcessCall(i) == [op |-> "can_process", i |-> i]
ProcessCall(i) == [op |-> "process", i |-> i]

\* The loop over self.processors in WarcProcessor._process_record, from
\* processor i on, with current_content = cur: the final current_content,
\* whether track_failed_record was called, the exception let out, and the
\* calls made on the processors.
RECURSIVE RunProcessors(_, _, _, _, _)
RunProcessors(i, cur, ran, calls, beh) ==
    IF i > NumProcessors
    THEN [content |-> cur, ran |-> ran, failed |-> 0, exc |-> NoneV, calls |-> calls]
    ELSE LET c1 == Append(calls, CanProcessCall(i))
             c2 == Append(c1, ProcessCall(i))
         IN  IF ~beh[i].can THEN RunProcessors(i + 1, cur, ran, c1, beh)
             ELSE IF beh[i].out \in RecordCaught
                  THEN [content |-> cur, ran |-> ran, failed |-> 1, exc |-> NoneV,
                        calls |-> c2]
             ELSE IF IsRaise(beh[i].out)
                  THEN [content |-> cur, ran |-> ran, failed |-> 0, exc |-> beh[i].out,
                        calls |-> c2]
             ELSE RunProcessors(i + 1, beh[i].out.text, TRUE, c2, beh)

\* The return statement of _process_record, given the final current_content.
FinalContent(current_content, content) ==
    IF current_content # content THEN [text |-> current_content] ELSE NoneV

\* WarcProcessor._process_record: the value returned (None or the text), the
\* bytes tracked, whether track_failed_record was called, the exception let
\* out; and, as `extracted`, the text the last processor that ran returned,
\* if no processor raised and that text is not empty.
ProcessRecord(record, beh) ==
    IF record.content = <<>> THEN
        [ret |-> NoneV, bytes |-> 0, failed |-> 0, exc |-> NoneV, extracted |-> NoneV,
         calls |-> <<>>]
    ELSE LET r == RunProcessors(1, record.content, FALSE, <<>>, beh)
             raised == r.failed = 1 \/ r.exc # NoneV
         IN  [ret |-> IF raised THEN NoneV ELSE FinalContent(r.content, record.content),
              bytes |-> Len(record.content),
              failed |-> r.failed,
              exc |-> r.exc,
              extracted |-> IF ~raised /\ r.ran /\ r.content # <<>>
                            THEN [text |-> r.content] ELSE NoneV,
              calls |-> r.calls]

\* `if processed_content:` in _process_single_record
Truthy(ret) == ret # NoneV /\ ret.text # <<>>

\* What a processor of a WarcRecordProcessorChain does: as above, and process
\* may return None, which the chain tells from the empty string.
ChainOutcomes == ProcessorOutcomes \cup {NoneV}
ChainBehaviours ==
    { b \in [can : BOOLEAN, out : ChainOutcomes] : ~b.can => b.out = NoneV }

\* The loop of WarcRecordProcessorChain.process from processor i on and its
\* return: the result, record.content as the chain leaves it, and the calls
\* made on the processors.
RECURSIVE ChainLoop(_, _, _, _, _)
ChainLoop(i, current_content, content, calls, beh) ==
    IF i > Len(beh)
    THEN [result |-> IF current_content = NoneV \/ current_content = [text |-> <<>>]
                     THEN NoneV ELSE current_content,
          content |-> content, calls |-> calls]
    ELSE LET c1 == Append(calls, CanProcessCall(i))
             c2 == Append(c1, ProcessCall(i))
         IN  IF ~beh[i].can THEN ChainLoop(i + 1, current_content, content, c1, beh)
             ELSE IF IsRaise(beh[i].out)
                  THEN [result |-> NoneV, content |-> content, calls |-> c2]
             ELSE IF beh[i].out = NoneV
                  THEN ChainLoop(i + 1, current_content, content, c2, beh)
             ELSE ChainLoop(i + 1, beh[i].out, beh[i].out.text, c2, beh)

\* A chain that stops at the first processor that returns text.
RECURSIVE FallbackLoop(_, _, _, _)
FallbackLoop(i, content, calls, beh) ==
    IF i > NumProcessors THEN [result |-> NoneV, content |-> content, calls |-> calls]
    ELSE LET c1 == Append(calls, CanProcessCall(i))
             c2 == Append(c1, ProcessCall(i))
         IN  IF ~beh[i].can THEN FallbackLoop(i + 1, content, c1, beh)
             ELSE IF IsRaise(beh[i].out)
                  THEN [result |-> NoneV, content |-> content, calls |-> c2]
             ELSE IF beh[i].out = NoneV \/ beh[i].out = [text |-> <<>>]
                  THEN FallbackLoop(i + 1, content, c2, beh)
             ELSE [result |-> beh[i].out, content |-> beh[i].out.text, calls |-> c2]
ChainProcessFirstOnly(record, beh) == FallbackLoop(1, record.content, <<>>, beh)

\* A chain that calls process whatever can_process returned.
ChainProcessIgnoringCan(record, beh) ==
    ChainLoop(1, NoneV, record.content, <<>>,
              [i \in DOMAIN beh |-> [beh[i] EXCEPT !.can = TRUE]])

\* WarcRecordProcessorChain.process
\* A chain that calls the processors as the chain does and returns the first
\* result instead of the last.
ChainProcessFirstResult(record, beh) ==
    LET r == ChainLoop(1, NoneV, record.content, <<>>, beh)
        texts == { i \in 1..Len(beh) : beh[i].can /\ ~IsRaise(beh[i].out) /\ beh[i].out # NoneV }
    IN  IF r.result = NoneV THEN r
        ELSE [r EXCEPT !.result = beh[CHOOSE i \in texts : \A j \in texts : i <= j].out]

ChainProcess(record, beh) == ChainLoop(1, NoneV, record.content, <<>>, beh)

\* ------------------------------------------------------------------------
\* Output writers
\* ------------------------------------------------------------------------
\* File contents are sequences of pieces: literal text and dumped JSON objects.
Lit(s) == [lit |-> s]
Obj(j) == [json |-> j]
File(pieces) == [data |-> pieces]

\* ContentType.__str__
ContentTypeStr(ct) == [parts |-> <<ct.main_type, ct.subtype>>, params |-> ct.parameters]

\* The record_json dict JsonWriter.write_record builds, or the exception
\* building it raises.
RecordJson(pr) ==
    LET id == WarcRecordIdStr(pr.record.record_id)
    IN  IF IsRaise(id) THEN id
        ELSE [warc_type |-> pr.record.record_type,
              record_id |-> id,
              date |-> [fields |-> pr.record.date.dt, fmt |-> "%Y-%m-%dT%H:%M:%S+00:00"],
              target_uri |-> pr.record.target_uri.uri,
              content_type |-> ContentTypeStr(pr.record.content_type),
              content |-> pr.processed_content,
              headers |-> pr.record.headers,
              metadata |-> <<>>]

\* write_record putting a comma before every element, the first one too.
JsonAppendAlwaysComma(file, first_record, j) ==
    File(file.data \o <<Lit(",\n")>> \o <<Obj(j)>>)

\* What JsonWriter.write_record appends to the file.
JsonAppend(file, first_record, j) ==
    File(file.data \o (IF first_record THEN <<>> ELSE <<Lit(",\n")>>) \o <<Obj(j)>>)

\* What configure raises for the state of the output directory, if anything
\* (OutputWriter.configure; JsonWriter.configure lines 42-50).
ConfigureError(out_dir) ==
    CASE out_dir = "missing" -> Raise(ValueErrorV)
      [] out_dir = "readonly" -> Raise("PermissionError")
      [] OTHER -> NoneV

\* ProcessedWarcRecord(record=..., processed_content=...)
ProcessedWarcRecord(r, text) == [record |-> r, processed_content |-> text, metadata |-> NoneV]

\* Output paths: two in a writable directory, one in a directory that does
\* not exist, one in a directory that is not writable, and one that exists
\* but cannot be opened for writing (it is a directory, or a read-only file).
GoodPaths == {"/out/p1", "/out/p2"}
AllPaths == GoodPaths \cup {"/nodir/p", "/rodir/p", "/out/dir"}
PathDir(p) ==
    CASE p = "/nodir/p" -> "missing"
      [] p = "/rodir/p" -> "readonly"
      [] OTHER -> "ok"

\* The files of a parallel run: os.path.join(output_dir, f'chunk_{i}.txt') and
\* os.path.join(output_dir, 'combined_output.txt').
ChunkPath(chunk_id) ==
    CASE chunk_id = 0 -> "/par/chunk_0.txt"
      [] chunk_id = 1 -> "/par/chunk_1.txt"
      [] chunk_id = 2 -> "/par/chunk_2.txt"
      [] chunk_id = 3 -> "/par/chunk_3.txt"
      [] chunk_id = 4 -> "/par/chunk_4.txt"
CombinedPath == "/par/combined_output.txt"
ParPaths == {ChunkPath(i) : i \in 0..4} \cup {CombinedPath}

Openable(p) == p \in GoodPaths \cup ParPaths

\* What a call on a writer gives: the writer and the files after it, and the
\* exception it raised, if any.
CallResult(w, d, e) == [wr |-> w, disk |-> d, exc |-> e]

\* JsonWriter.__init__
NewJsonWriter == [kind |-> "JsonWriter", output_path |-> NoneV, first_record |-> TRUE]

\* JsonWriter.configure(p)
JsonWriterConfigure(w, d, p) ==
    LET e == ConfigureError(PathDir(p))
        w1 == [w EXCEPT !.output_path = Str(p)]
    IN  IF e # NoneV THEN CallResult(w, d, e)
        ELSE IF ~Openable(p) THEN CallResult(w1, d, Raise(IOErrorV))
        ELSE CallResult(w1, [d EXCEPT ![p] = File(<<Lit("[\n")>>)], NoneV)

\* JsonWriter.write_record(pr)
JsonWriterWriteRecord(w, d, pr) ==
    IF w.output_path = NoneV THEN CallResult(w, d, Raise(ValueErrorV))
    ELSE LET j == RecordJson(pr)
             p == w.output_path.s
         IN  IF IsRaise(j) THEN CallResult(w, d, j)
             ELSE IF ~Openable(p) THEN CallResult(w, d, Raise(IOErrorV))
             ELSE CallResult([w EXCEPT !.first_record = FALSE],
                             [d EXCEPT ![p] = JsonAppend(IF @ = NoneV THEN File(<<>>) ELSE @,
                                                         w.first_record, j)],
                             NoneV)

\* JsonWriter.__del__ : an exception it raises is ignored by Python.
JsonWriterDel(w, d) ==
    IF w.output_path = NoneV THEN CallResult(w, d, NoneV)
    ELSE LET p == w.output_path.s
         IN  IF Openable(p) /\ d[p] # NoneV
             THEN CallResult(w, [d EXCEPT ![p] = File(@.data \o <<Lit("\n]")>>)], NoneV)
             ELSE CallResult(w, d, NoneV)

\* PlainTextWriter.__init__ : src/plain_text_writer.py is the class the
\* command line uses, src/writers/plain_text_writer.py the one the factory uses.
NewPlainTextWriter == [kind |-> "PlainTextWriter", output_path |-> NoneV]
NewWritersPlainTextWriter == [kind |-> "writers.PlainTextWriter", output_path |-> NoneV]

\* PlainTextWriter.configure(p), the same in both classes: the file is opened
\* before output_path is set.
TextWriterConfigure(w, d, p) ==
    LET e == ConfigureError(PathDir(p))
    IN  IF e # NoneV THEN CallResult(w, d, e)
        ELSE IF ~Openable(p) THEN CallResult(w, d, Raise(IOErrorV))
        ELSE CallResult([w EXCEPT !.output_path = Str(p)], [d EXCEPT ![p] = File(<<>>)], NoneV)

\* The files of the text writers are sequences of lines: a header line is a
\* name and a value, any other line is its text.
Hdr(name, value) == [h |-> name, v |-> value]
VersionLine == Lit("WARC/1.0")
BlankLine == Lit("")

\* The lines of a text, which is held as the sequence of its lines.
TextLines(text) == [k \in 1..Len(text) |-> Lit(text[k])]

\* len(s.encode('utf-8')) of one line.
Utf8LineLen(line) ==
    CASE line = "" -> 0
      [] line = "é" -> 2
      [] line = "WARC/1.0" -> 8
      [] OTHER -> 1

\* len(text.encode('utf-8'))
RECURSIVE Utf8Len(_)
Utf8Len(text) ==
    IF text = <<>> THEN 0
    ELSE Utf8LineLen(Head(text)) + (IF Len(text) > 1 THEN 1 ELSE 0) + Utf8Len(Tail(text))

\* The header names src/plain_text_writer.py does not copy from record.headers.
WrittenAlready ==
    {"warc-type", "warc-record-id", "warc-date", "warc-target-uri", "content-type",
     "warc-payload-digest"}

\* The lines for record.headers: src/plain_text_writer.py lines 97-104 and
\* src/writers/plain_text_writer.py lines 79-82.
RECURSIVE CopiedHeaders(_, _)
CopiedHeaders(kind, headers) ==
    IF headers = <<>> THEN <<>>
    ELSE LET hd == Head(headers)
             skip == IF kind = "PlainTextWriter" THEN Lower(hd.name) \in WrittenAlready
                     ELSE hd.name = "Content-Length"
         IN  (IF skip THEN <<>> ELSE <<Hdr(hd.name, hd.value)>>)
             \o CopiedHeaders(kind, Tail(headers))

\* The lines write_record writes before the first value that cannot be
\* formatted, all of them if there is none, and the exception raised.
TextUnit(kind, pr) ==
    LET r == pr.record
        id == WarcRecordIdStr(r.record_id)
        type == Hdr("WARC-Type", Str(r.record_type))
        uri == Hdr("WARC-Target-URI", r.target_uri.uri)
        date == Hdr("WARC-Date", [fields |-> r.date.dt, fmt |-> "%Y-%m-%dT%H:%M:%SZ"])
        digest == IF r.payload_digest = NoneV THEN <<>>
                  ELSE <<Hdr("WARC-Payload-Digest", r.payload_digest.digest)>>
        length == Hdr("Content-Length", [n |-> Utf8Len(pr.processed_content)])
        tail == digest \o CopiedHeaders(kind, r.headers) \o <<length, BlankLine>>
                \o TextLines(pr.processed_content)
    IN  IF kind = "PlainTextWriter"
        THEN IF IsRaise(id) THEN [lines |-> <<VersionLine, type>>, exc |-> id]
             ELSE [lines |-> <<VersionLine, type, Hdr("WARC-Record-ID", id), date, uri,
                                Hdr("Content-Type", ContentTypeStr(r.content_type))>>
                              \o tail \o <<BlankLine, VersionLine, BlankLine>>,
                   exc |-> NoneV]
        ELSE IF IsRaise(id) THEN [lines |-> <<VersionLine, type, uri, date>>, exc |-> id]
             ELSE [lines |-> <<VersionLine, type, uri, date, Hdr("WARC-Record-ID", id)>>
                              \o tail \o <<VersionLine, BlankLine>>,
                   exc |-> NoneV]

\* PlainTextWriter.write_record(pr)
TextWriterWriteRecord(w, d, pr) ==
    IF w.output_path = NoneV THEN CallResult(w, d, Raise(ValueErrorV))
    ELSE LET p == w.output_path.s
             u == TextUnit(w.kind, pr)
         IN  CallResult(w, [d EXCEPT ![p] = File((IF @ = NoneV THEN <<>> ELSE @.data)
                                                  \o u.lines)],
                        u.exc)

\* The method of the class of the writer.
WriterConfigure(w, d, p) ==
    IF w.kind = "JsonWriter" THEN JsonWriterConfigure(w, d, p)
    ELSE TextWriterConfigure(w, d, p)
WriterWriteRecord(w, d, pr) ==
    IF w.kind = "JsonWriter" THEN JsonWriterWriteRecord(w, d, pr)
    ELSE TextWriterWriteRecord(w, d, pr)
WriterDestroy(w, d) ==
    IF w.kind = "JsonWriter" THEN JsonWriterDel(w, d)
    ELSE CallResult(w, d, NoneV)

\* ChunkInfo(start_record, record_count, chunk_id)
ChunkInfo(start_record, record_count, chunk_id) ==
    [start_record |-> start_record, record_count |-> record_count, chunk_id |-> chunk_id]

\* The first pass of get_file_chunks: the number of response records.
RECURSIVE CountResponses(_)
CountResponses(entries) ==
    IF entries = <<>> THEN 0
    ELSE (IF Head(entries).rec_type = "response" THEN 1 ELSE 0) + CountResponses(Tail(entries))

Max(a, b) == IF a >= b THEN a ELSE b
Min(a, b) == IF a <= b THEN a ELSE b

\* get_file_chunks(input_path, num_chunks): one chunk for each start_record of
\* range(0, total_records, records_per_chunk).
GetFileChunks(entries, num_chunks) ==
    LET total_records == CountResponses(entries)
        records_per_chunk == Max(1, total_records \div num_chunks)
        starts == { n \in 0..(total_records - 1) : n % records_per_chunk = 0 }
    IN  [ k \in 1..Cardinality(starts) |->
            ChunkInfo((k - 1) * records_per_chunk,
                      Min(records_per_chunk, total_records - (k - 1) * records_per_chunk),
                      k - 1) ]

\* One pass of the loop of process_chunk over the record at position n of the
\* input, by the worker in state w on the files d: the worker and the files
\* after it.
ChunkRecord(w, d, entries, n, beh) ==
    LET record == entries[n]
        next == [w EXCEPT !.pos = n]
    IN  IF record.rec_type # "response" THEN [w |-> next, d |-> d]
        ELSE IF w.current_record < w.chunk.start_record
        THEN [w |-> [next EXCEPT !.current_record = @ + 1], d |-> d]
        ELSE IF w.records_processed >= w.chunk.record_count
        THEN [w |-> [w EXCEPT !.status = "done"], d |-> d]
        ELSE LET handled == [next EXCEPT !.handled = Append(@, n)]
                 warc_record == Parse(record)
             IN  IF warc_record = NoneV \/ IsRaise(warc_record)
                 THEN [w |-> handled, d |-> d]
                 ELSE LET c == ChainProcess(warc_record, beh)
                      IN  IF c.result = NoneV THEN [w |-> handled, d |-> d]
                          ELSE LET pr == ProcessedWarcRecord(
                                             [warc_record EXCEPT !.content = c.content],
                                             c.result.text)
                                   r == TextWriterWriteRecord(w.output_writer, d, pr)
                               IN  IF r.exc # NoneV THEN [w |-> handled, d |-> r.disk]
                                   ELSE [w |-> [handled EXCEPT
                                                  !.records_processed = @ + 1,
                                                  !.wrote = Append(@, n)],
                                         d |-> r.disk]

\* json.load on a file: the elements of the array, or the error raised when
\* the file is no array of objects separated by commas.
IsObj(piece) == "json" \in DOMAIN piece
RECURSIVE JsonElements(_)
JsonElements(pieces) ==
    IF pieces = <<>> THEN [elements |-> <<>>]
    ELSE IF ~IsObj(Head(pieces)) THEN Raise(ValueErrorV)
    ELSE IF Len(pieces) = 1 THEN [elements |-> <<Head(pieces).json>>]
    ELSE IF pieces[2] # Lit(",\n") THEN Raise(ValueErrorV)
    ELSE IF Len(pieces) = 2 THEN Raise(ValueErrorV)
    ELSE LET rest == JsonElements(SubSeq(pieces, 3, Len(pieces)))
         IN  IF rest = Raise(ValueErrorV) THEN rest
             ELSE [elements |-> <<Head(pieces).json>> \o rest.elements]
JsonLoad(file) ==
    LET d == file.data
    IN  IF Len(d) < 2 THEN Raise(ValueErrorV)
        ELSE IF d[1] # Lit("[\n") \/ d[Len(d)] # Lit("\n]") THEN Raise(ValueErrorV)
        ELSE JsonElements(SubSeq(d, 2, Len(d) - 1))

\* ------------------------------------------------------------------------
\* State
\* ------------------------------------------------------------------------
VARIABLES
    pc,                \* where the program is
    args,              \* arguments of the current process_warc_file call
    fs,                \* file system: output file, output directory, input file
    writer,            \* the OutputWriter: its class and its fields
    stats,             \* the ProcessingStats instance
    clock,             \* datetime.now()
    total_records,     \* local of _process_records_from_file
    cur_record,        \* the raw record the iterator yielded last, if in flight
    parsed_record,     \* local parsed_record of _process_single_record
    processed_content, \* local processed_content of _process_single_record
    written,           \* what write_record has accepted: the text, and which entry it is of
    exc,               \* the exception the last call let out, or None
    entry_stats,       \* the stats when the record in flight was yielded
    extracted          \* the text the processors returned for the record in flight

\* State of the components when they are run on their own.
VARIABLES
    parse_results,     \* what each call of parse on cur_record returned or raised
    consumed,          \* whether the payload stream of cur_record has been read
    chain_content,     \* record.content of the record given to the processors
    chain_beh,         \* what each processor does when it is called
    chain_out,         \* what the run over the processors gave
    wr,                \* a writer object: its class and its fields
    disk,              \* the content of the file at each output path, None if none
    accepted,          \* per path, the records write_record returned normally for
    wlog               \* the calls made on the writer so far, and the last outcome

VARIABLES
    par,               \* a parallel run: its input, num_processes and chunks
    workers            \* the state of the worker of each chunk

VARIABLES
    stats_log          \* the calls made on a ProcessingStats instance on its own

parse_vars == <<parse_results, consumed>>
chain_vars == <<chain_content, chain_beh, chain_out>>
writer_vars == <<wr, disk, accepted, wlog>>
par_vars == <<par, workers, stats_log>>

\* The variables process_warc_file does not touch.
aux == <<parse_vars, chain_vars, writer_vars, par_vars>>

\* No writer is run on its own.
WriterIdle ==
    /\ wr = NoneV
    /\ disk = [p \in GoodPaths |-> NoneV]
    /\ accepted = [p \in GoodPaths |-> <<>>]
    /\ wlog = NoneV

\* No parallel run.
ParIdle == par = NoneV /\ workers = <<>> /\ stats_log = NoneV

vars == <<pc, args, fs, writer, stats, clock, total_records, cur_record,
          parsed_record, processed_content, written, exc, entry_stats, extracted,
          aux>>

\* ProcessingStats.__init__
NewStats ==
    [start_time |-> NoneV, end_time |-> NoneV, input_size |-> 0, bytes_processed |-> 0,
     records_parsed |-> 0, records_processed |-> 0, records_skipped |-> 0,
     records_failed |-> 0]

\* The file systems a run may start in.
InitialFiles ==
    { f \in [output : {NoneV, File(<<Lit("existing content")>>)},
             out_dir : {"ok", "missing", "readonly"},
             input : {[kind |-> "missing"], [kind |-> "empty"]} \cup
                     {[kind |-> "archive", len |-> n] : n \in 1..MaxEntries}] :
        f.output # NoneV => f.out_dir # "missing" }

NoArgs == [input_path |-> "", output_path |-> "", overwrite |-> FALSE]

Init ==
    /\ pc = "idle"
    /\ args = NoArgs
    /\ fs \in InitialFiles
    /\ writer \in [kind : {"JsonWriter", "OutputWriter"}, output_path : {""},
                    first_record : {TRUE}]
    /\ stats = NewStats
    /\ clock = 0
    /\ total_records = 0
    /\ cur_record = NoneV
    /\ parsed_record = NoneV
    /\ processed_content = NoneV
    /\ written = <<>>
    /\ exc = NoneV
    /\ entry_stats = NewStats
    /\ extracted = NoneV
    /\ parse_results = <<>>
    /\ consumed = FALSE
    /\ chain_content = <<>>
    /\ chain_beh = <<>>
    /\ chain_out = NoneV
    /\ WriterIdle
    /\ ParIdle

\* An exception leaves process_warc_file.
Raised(e) ==
    /\ pc' = "raised"
    /\ exc' = e
    /\ cur_record' = NoneV
    /\ parsed_record' = NoneV
    /\ processed_content' = NoneV

\* The check with the overwrite flag read the wrong way round.
OutputExistsCheckInverted(output, overwrite) == output # NoneV /\ overwrite

\* `os.path.exists(output_path) and not overwrite` (warc_processor.py line 69)
OutputExistsCheck(output, overwrite) == output # NoneV /\ ~overwrite

\* process_warc_file is called; its argument checks (lines 60-74).
Call ==
    /\ UNCHANGED aux
    /\ pc = "idle"
    /\ \E a \in [input_path : {"", "in.warc"}, output_path : {"", "out.json"},
                  overwrite : BOOLEAN] :
          /\ args' = a
          /\ IF a.input_path = "" \/ a.output_path = "" THEN Raised(Raise(ValueErrorV))
             ELSE IF OutputExistsCheck(fs.output, a.overwrite)
                  THEN Raised(Raise("FileExistsError"))
             ELSE /\ pc' = "configure"
                  /\ exc' = NoneV
                  /\ UNCHANGED <<cur_record, parsed_record, processed_content>>
    /\ total_records' = 0
    /\ UNCHANGED <<fs, writer, stats, clock, written, entry_stats, extracted>>

\* The call of configure left out: the run goes on to start_processing.
ConfigureSkipped ==
    /\ UNCHANGED aux
    /\ pc = "configure"
    /\ pc' = "start"
    /\ UNCHANGED <<fs, writer, exc, cur_record, parsed_record, processed_content>>
    /\ UNCHANGED <<args, stats, clock, total_records, written, entry_stats, extracted>>

\* self.output_writer.configure(output_path) (line 77).  JsonWriter.configure
\* stores the path and truncates the file to "[\n".
Configure ==
    /\ UNCHANGED aux
    /\ pc = "configure"
    /\ LET e == ConfigureError(fs.out_dir)
       IN  IF e # NoneV THEN Raised(e) /\ UNCHANGED <<fs, writer>>
           ELSE /\ pc' = "start"
                /\ writer' = [writer EXCEPT !.output_path = args.output_path]
                /\ fs' = IF writer.kind = "JsonWriter"
                          THEN [fs EXCEPT !.output = File(<<Lit("[\n")>>)]
                          ELSE fs
                /\ UNCHANGED <<exc, cur_record, parsed_record, processed_content>>
    /\ UNCHANGED <<args, stats, clock, total_records, written, entry_stats, extracted>>

\* self.stats.start_processing(input_path) (line 78): set_input_size.
StartProcessing ==
    /\ UNCHANGED aux
    /\ pc = "start"
    /\ IF fs.input.kind = "missing"
       THEN Raised(Raise("FileNotFoundError")) /\ UNCHANGED <<stats, clock>>
       ELSE /\ clock' = clock + 1
            /\ stats' = [stats EXCEPT !.start_time = [t |-> clock + 1],
                                       !.input_size = IF fs.input.kind = "empty" THEN 0
                                                      ELSE fs.input.len]
            /\ IF fs.input.kind = "empty" THEN Raised(Raise(ValueErrorV))
               ELSE /\ pc' = "stream"
                    /\ UNCHANGED <<exc, cur_record, parsed_record, processed_content>>
    /\ UNCHANGED <<args, fs, writer, total_records, written, entry_stats, extracted>>

\* The for loop of _process_records_from_file: the iterator yields the next
\* record, or the input is exhausted and the with block is left.
ReadEntry ==
    /\ UNCHANGED aux
    /\ pc = "stream"
    /\ IF total_records < fs.input.len
       THEN /\ total_records' = total_records + 1
            /\ cur_record' \in IteratorEntries
            /\ entry_stats' = stats
            /\ pc' = "parse"
       ELSE /\ pc' = "finish"
            /\ UNCHANGED <<total_records, cur_record, entry_stats>>
    /\ extracted' = NoneV
    /\ UNCHANGED <<args, fs, writer, stats, clock, parsed_record,
                   processed_content, written, exc>>

\* Reading the input fails with an OSError while the archive is iterated.
ReadFault ==
    /\ UNCHANGED aux
    /\ pc = "stream"
    /\ total_records < fs.input.len
    /\ Raised(Raise(IOErrorV))
    /\ UNCHANGED <<args, fs, writer, stats, clock, total_records, written, entry_stats,
                   extracted>>

\* _process_single_record, lines 110-116: parse, and the skip on None.
ParseRecord ==
    /\ UNCHANGED aux
    /\ pc = "parse"
    /\ LET r == Parse(cur_record)
       IN  IF r = NoneV THEN
               /\ stats' = [stats EXCEPT !.records_skipped = @ + 1]
               /\ pc' = "stream"
               /\ cur_record' = NoneV
               /\ UNCHANGED <<parsed_record, processed_content, exc>>
           ELSE IF r \in RecordCaught THEN
               /\ stats' = [stats EXCEPT !.records_failed = @ + 1]
               /\ pc' = "stream"
               /\ cur_record' = NoneV
               /\ UNCHANGED <<parsed_record, processed_content, exc>>
           ELSE IF IsRaise(r) THEN Raised(r) /\ UNCHANGED stats
           ELSE /\ stats' = [stats EXCEPT !.records_parsed = @ + 1]
                /\ parsed_record' = r
                /\ pc' = "extract"
                /\ UNCHANGED <<cur_record, processed_content, exc>>
    /\ UNCHANGED <<args, fs, writer, clock, total_records, written, entry_stats,
                   extracted>>

\* _process_single_record, lines 118-119 and 125-132: _process_record and
\* what follows unless there is content to write.
ExtractRecord ==
    /\ UNCHANGED aux
    /\ pc = "extract"
    /\ \E beh \in [1..NumProcessors -> ProcessorBehaviours] :
          LET r == ProcessRecord(parsed_record, beh)
              s1 == [stats EXCEPT !.bytes_processed = @ + r.bytes,
                                  !.records_failed = @ + r.failed]
          IN  /\ extracted' = r.extracted
              /\ IF r.exc # NoneV THEN Raised(r.exc) /\ stats' = s1
                 ELSE IF Truthy(r.ret) THEN
                     /\ stats' = s1
                     /\ processed_content' = r.ret
                     /\ pc' = "write"
                     /\ UNCHANGED <<cur_record, parsed_record, exc>>
                 ELSE
                     /\ stats' = [s1 EXCEPT !.records_skipped = @ + 1]
                     /\ pc' = "stream"
                     /\ cur_record' = NoneV
                     /\ parsed_record' = NoneV
                     /\ UNCHANGED <<processed_content, exc>>
    /\ UNCHANGED <<args, fs, writer, clock, total_records, written, entry_stats>>

\* What write_record does with the record: "ok", or the exception it raises.
\* JsonWriter builds record_json first; any OutputWriter may raise ValueError
\* or IOError (src/output_writer.py lines 43-45).
WriteOutcomes(kind, pr) ==
    IF kind = "JsonWriter" /\ IsRaise(RecordJson(pr)) THEN {RecordJson(pr)}
    ELSE {NoneV, Raise(ValueErrorV), Raise(IOErrorV)}

\* The record is put before the ones accepted so far.
AcceptAtFront(seq, pr) == <<pr>> \o seq

\* The sequence of accepted records after write_record accepted pr.
Accept(seq, pr) == Append(seq, pr)

\* _process_single_record, lines 120-124 and 130-132: wrap, write, count.
WriteRecord ==
    /\ UNCHANGED aux
    /\ pc = "write"
    /\ LET pr == ProcessedWarcRecord(parsed_record, processed_content.text)
       IN  \E o \in WriteOutcomes(writer.kind, pr) :
                 IF o = NoneV THEN
                     /\ written' = Accept(written, [text |-> pr.processed_content,
                                                    src |-> total_records])
                     /\ fs' = IF writer.kind = "JsonWriter"
                               THEN [fs EXCEPT !.output =
                                        JsonAppend(@, writer.first_record, RecordJson(pr))]
                               ELSE fs
                     /\ writer' = IF writer.kind = "JsonWriter"
                                   THEN [writer EXCEPT !.first_record = FALSE] ELSE writer
                     /\ stats' = [stats EXCEPT !.records_processed = @ + 1]
                     /\ pc' = "stream"
                     /\ cur_record' = NoneV
                     /\ parsed_record' = NoneV
                     /\ processed_content' = NoneV
                     /\ exc' = exc
                 ELSE IF o \in RecordCaught THEN
                     /\ stats' = [stats EXCEPT !.records_failed = @ + 1]
                     /\ pc' = "stream"
                     /\ cur_record' = NoneV
                     /\ parsed_record' = NoneV
                     /\ processed_content' = NoneV
                     /\ UNCHANGED <<written, fs, writer, exc>>
                 ELSE Raised(o) /\ UNCHANGED <<written, fs, writer, stats>>
    /\ extracted' = NoneV
    /\ UNCHANGED <<args, clock, total_records, entry_stats>>

\* self.stats.finish_processing() and the return (lines 84-85).
FinishProcessing ==
    /\ UNCHANGED aux
    /\ pc = "finish"
    /\ clock' = clock + 1
    /\ stats' = [stats EXCEPT !.end_time = [t |-> clock + 1]]
    /\ pc' = "returned"
    /\ UNCHANGED <<args, fs, writer, total_records, cur_record, parsed_record,
                   processed_content, written, exc, entry_stats, extracted>>

\* JsonWriter.__del__ : runs when the writer is destroyed, which is after the
\* WarcProcessor holding it has been dropped.
WriterDel ==
    /\ UNCHANGED aux
    /\ pc \in {"returned", "raised"}
    /\ writer.kind = "JsonWriter"
    /\ pc' = "destroyed"
    /\ fs' = IF writer.output_path # "" /\ fs.output # NoneV
              THEN [fs EXCEPT !.output = File(@.data \o <<Lit("\n]")>>)]
              ELSE fs
    /\ UNCHANGED <<args, writer, stats, clock, total_records, cur_record,
                   parsed_record, processed_content, written, exc, entry_stats,
                   extracted>>

Next ==
    \/ Call
    \/ Configure
    \/ StartProcessing
    \/ ReadEntry
    \/ ReadFault
    \/ ParseRecord
    \/ ExtractRecord
    \/ WriteRecord
    \/ FinishProcessing
    \/ WriterDel

Spec == Init /\ [][Next]_vars

\* ------------------------------------------------------------------------
\* WarcRecordParser.parse on its own: one call on any raw record
\* ------------------------------------------------------------------------
InitParse ==
    /\ pc = "parser"
    /\ cur_record \in ParseInputs
    /\ args = NoArgs
    /\ fs = [output |-> NoneV, out_dir |-> "ok", input |-> [kind |-> "missing"]]
    /\ writer = [kind |-> "OutputWriter", output_path |-> "", first_record |-> TRUE]
    /\ stats = NewStats
    /\ clock = 0
    /\ total_records = 0
    /\ parsed_record = NoneV
    /\ processed_content = NoneV
    /\ written = <<>>
    /\ exc = NoneV
    /\ entry_stats = NewStats
    /\ extracted = NoneV
    /\ parse_results = <<>>
    /\ consumed = FALSE
    /\ chain_content = <<>>
    /\ chain_beh = <<>>
    /\ chain_out = NoneV
    /\ WriterIdle
    /\ ParIdle

\* Whether parse gets as far as stream.read() on the record.
ReadsStream(record) ==
    /\ ValidateRecordType(record)
    /\ LET fields == ExtractRequiredFields(record)
       IN  ~IsRaise(fields) /\ fields # NoneV
    /\ ~IsRaise(ContentType(ContentTypeHeader(record)))
    /\ record.stream.kind = "bytes"

\* The record as a further call finds it: a stream that has been read to its
\* end gives no more bytes.
Reread(record, was_read) ==
    IF was_read /\ record.stream.kind = "bytes"
    THEN [record EXCEPT !.stream = [kind |-> "bytes", data |-> <<>>]]
    ELSE record

\* parser.parse(cur_record) is called and returns or raises.
ParseCall ==
    /\ pc = "parser"
    /\ LET r == Parse(cur_record)
       IN  /\ parsed_record' = IF IsRaise(r) THEN NoneV ELSE r
           /\ exc' = IF IsRaise(r) THEN r ELSE NoneV
           /\ parse_results' = <<r>>
    /\ consumed' = ReadsStream(cur_record)
    /\ pc' = "parsed"
    /\ UNCHANGED <<args, fs, writer, stats, clock, total_records, cur_record,
                   processed_content, written, entry_stats, extracted,
                   chain_vars, writer_vars, par_vars>>

\* parser.parse is called once more on the same raw record.
ParseAgain ==
    /\ pc = "parsed"
    /\ LET again == Reread(cur_record, consumed)
       IN  /\ parse_results' = Append(parse_results, Parse(again))
           /\ consumed' = (consumed \/ ReadsStream(again))
    /\ pc' = "parsed_again"
    /\ UNCHANGED <<args, fs, writer, stats, clock, total_records, cur_record,
                   parsed_record, processed_content, written, exc, entry_stats,
                   extracted, chain_vars, writer_vars, par_vars>>

NextParse ==
    \/ ParseCall
    \/ ParseAgain

SpecParse == InitParse /\ [][NextParse]_vars

\* ------------------------------------------------------------------------
\* The processors on their own: one record given to
\* WarcRecordProcessorChain.process, or to WarcProcessor._process_record
\* ------------------------------------------------------------------------
\* WarcRecord.content_length
ContentLength(record) == Len(record.content)

\* The content of the records given to the processors: the texts, and one
\* character that takes two bytes in UTF-8.
ChainContents == Texts \cup {<<"é">>}

InitChain ==
    /\ pc = "chain"
    /\ chain_content \in ChainContents
    /\ chain_beh \in [1..NumProcessors -> ChainBehaviours]
    /\ chain_out = NoneV
    /\ WriterIdle
    /\ ParIdle
    /\ cur_record = NoneV
    /\ args = NoArgs
    /\ fs = [output |-> NoneV, out_dir |-> "ok", input |-> [kind |-> "missing"]]
    /\ writer = [kind |-> "OutputWriter", output_path |-> "", first_record |-> TRUE]
    /\ stats = NewStats
    /\ clock = 0
    /\ total_records = 0
    /\ parsed_record = NoneV
    /\ processed_content = NoneV
    /\ written = <<>>
    /\ exc = NoneV
    /\ entry_stats = NewStats
    /\ extracted = NoneV
    /\ parse_results = <<>>
    /\ consumed = FALSE

\* To _process_record, a processor that returns None is one that returns the
\* empty string: `if not current_content: continue`.
AsProcessorBehaviours(beh) ==
    [i \in DOMAIN beh |-> IF beh[i].out = NoneV THEN [beh[i] EXCEPT !.out = [text |-> <<>>]]
                          ELSE beh[i]]

\* WarcRecordProcessorChain.process is called on the record.
ChainCall ==
    /\ pc = "chain"
    /\ LET r == ChainProcess([content |-> chain_content], chain_beh)
       IN  /\ chain_out' = [result |-> r.result, calls |-> r.calls, exc |-> NoneV]
           /\ chain_content' = r.content
    /\ pc' = "chain_done"
    /\ UNCHANGED <<args, fs, writer, stats, clock, total_records, cur_record,
                   parsed_record, processed_content, written, exc, entry_stats,
                   extracted, parse_vars, chain_beh, writer_vars, par_vars>>

\* WarcProcessor._process_record is called on the record.
LoopCall ==
    /\ pc = "chain"
    /\ LET r == ProcessRecord([content |-> chain_content], AsProcessorBehaviours(chain_beh))
       IN  /\ chain_out' = [result |-> r.ret, calls |-> r.calls, exc |-> r.exc]
           /\ stats' = [stats EXCEPT !.bytes_processed = @ + r.bytes,
                                     !.records_failed = @ + r.failed]
    /\ pc' = "loop_done"
    /\ UNCHANGED <<args, fs, writer, clock, total_records, cur_record,
                   parsed_record, processed_content, written, exc, entry_stats,
                   extracted, parse_vars, chain_content, chain_beh, writer_vars,
                   par_vars>>

NextChain ==
    \/ ChainCall
    \/ LoopCall

SpecChain == InitChain /\ [][NextChain]_vars

\* ------------------------------------------------------------------------
\* A writer on its own: configure, write_record and destruction called on it
\* ------------------------------------------------------------------------
\* A record built from direct fields with a str id, as the tests of the
\* writers build it, with the HTTP headers given; and the record the parser
\* builds for BaseEntry.
DirectRecord(headers) ==
    WarcRecord(Str("<urn:uuid:1>"), "response", WarcUri(U1),
               [fields |-> T1, fmt |-> "%Y-%m-%dT%H:%M:%SZ"], ContentType(CtHtml),
               <<"<p>", "a", "</p>">>, headers, NoneV)
HttpContentType == [name |-> "Content-Type", value |-> CtHtml]
HttpContentLength == [name |-> "Content-Length", value |-> Str("1234")]
HttpContentLengthLower == [name |-> "content-length", value |-> Str("1234")]
WriterRecords ==
    { ProcessedWarcRecord(DirectRecord(<<>>), <<"a">>),
      ProcessedWarcRecord(DirectRecord(<<HttpContentType>>), <<"b">>),
      ProcessedWarcRecord(DirectRecord(<<HttpContentType, HttpContentLength>>), <<"é", "b">>),
      ProcessedWarcRecord(DirectRecord(<<HttpContentType, HttpContentLengthLower>>), <<"a">>),
      ProcessedWarcRecord(DirectRecord(<<HttpContentType>>), <<"a", "WARC/1.0", "b">>),
      ProcessedWarcRecord(Parse(BaseEntry), <<"a">>) }

NewWriters == {NewJsonWriter, NewPlainTextWriter, NewWritersPlainTextWriter}

InitWriter ==
    /\ pc = "writer"
    /\ wr \in NewWriters
    /\ disk = [p \in GoodPaths |-> NoneV]
    /\ accepted = [p \in GoodPaths |-> <<>>]
    /\ wlog = [configures |-> 0, configured |-> 0, writes |-> 0, last |-> NoneV]
    /\ cur_record = NoneV
    /\ args = NoArgs
    /\ fs = [output |-> NoneV, out_dir |-> "ok", input |-> [kind |-> "missing"]]
    /\ writer = [kind |-> "OutputWriter", output_path |-> "", first_record |-> TRUE]
    /\ stats = NewStats
    /\ clock = 0
    /\ total_records = 0
    /\ parsed_record = NoneV
    /\ processed_content = NoneV
    /\ written = <<>>
    /\ exc = NoneV
    /\ entry_stats = NewStats
    /\ extracted = NoneV
    /\ parse_results = <<>>
    /\ consumed = FALSE
    /\ chain_content = <<>>
    /\ chain_beh = <<>>
    /\ chain_out = NoneV
    /\ ParIdle

\* What the writer run on its own leaves alone.
writer_frame ==
    <<args, fs, writer, stats, clock, total_records, cur_record, parsed_record,
      processed_content, written, exc, entry_stats, extracted, parse_vars, chain_vars,
      par_vars>>

\* wr.configure(p) is called.
ConfigureWriter ==
    /\ pc = "writer"
    /\ wlog.configures < MaxConfigures
    /\ \E p \in AllPaths :
          LET r == WriterConfigure(wr, disk, p)
          IN  /\ wr' = r.wr
              /\ disk' = r.disk
              /\ wlog' = [wlog EXCEPT !.configures = @ + 1,
                                      !.configured = IF r.exc = NoneV THEN @ + 1 ELSE @,
                                      !.last = r.exc]
    /\ pc' = pc
    /\ UNCHANGED <<accepted, writer_frame>>

\* wr.write_record(pr) is called.
WriteToWriter ==
    /\ pc = "writer"
    /\ wlog.writes < MaxWrites
    /\ \E pr \in WriterRecords :
          LET r == WriterWriteRecord(wr, disk, pr)
          IN  /\ wr' = r.wr
              /\ disk' = r.disk
              /\ wlog' = [wlog EXCEPT !.writes = @ + 1, !.last = r.exc]
              /\ accepted' = IF r.exc = NoneV
                             THEN [accepted EXCEPT ![wr.output_path.s] = Append(@, pr)]
                             ELSE accepted
    /\ pc' = pc
    /\ UNCHANGED writer_frame

\* The writer is destroyed.
DestroyWriter ==
    /\ pc = "writer"
    /\ LET r == WriterDestroy(wr, disk)
       IN  /\ wr' = r.wr
           /\ disk' = r.disk
    /\ pc' = "writer_destroyed"
    /\ UNCHANGED <<accepted, wlog, writer_frame>>

NextWriter ==
    \/ ConfigureWriter
    \/ WriteToWriter
    \/ DestroyWriter

SpecWriter == InitWriter /\ [][NextWriter]_vars

\* ------------------------------------------------------------------------
\* process_warc_parallel on its own: the input is a sequence of raw records,
\* the one processor of each worker's chain does the same in every worker.
\* ------------------------------------------------------------------------
ParEntries ==
    { BaseEntry, [BaseEntry EXCEPT !.http = Str("404")],
      [BaseEntry EXCEPT !.rec_type = "request"] }
\* What the processor of the chain of a worker does: it cannot process the
\* record, it returns text, or it raises.
ParBehaviours ==
    { b \in ChainBehaviours : b.out \in {NoneV, [text |-> <<"a">>], Raise(OtherErrorV)} }
ParInputs == UNION { [1..n -> ParEntries] : n \in 0..MaxParEntries }

\* The locals of process_chunk before its loop.
NewWorker(chunk) ==
    [status |-> "idle", chunk |-> chunk, output_writer |-> NewPlainTextWriter, pos |-> 0,
     current_record |-> 0, records_processed |-> 0, handled |-> <<>>, wrote |-> <<>>]

InitParallel ==
    /\ pc = "parallel"
    /\ par \in [entries : ParInputs, num_processes : 1..MaxProcesses, chunks : {<<>>},
               got : {0}]
    /\ workers = <<>>
    /\ stats_log = NoneV
    /\ chain_beh \in [1..1 -> ParBehaviours]
    /\ chain_content = <<>>
    /\ chain_out = NoneV
    /\ wr = NoneV
    /\ disk = [p \in ParPaths |-> NoneV]
    /\ accepted = [p \in GoodPaths |-> <<>>]
    /\ wlog = NoneV
    /\ cur_record = NoneV
    /\ args = NoArgs
    /\ fs = [output |-> NoneV, out_dir |-> "ok", input |-> [kind |-> "missing"]]
    /\ writer = [kind |-> "OutputWriter", output_path |-> "", first_record |-> TRUE]
    /\ stats = NewStats
    /\ clock = 0
    /\ total_records = 0
    /\ parsed_record = NoneV
    /\ processed_content = NoneV
    /\ written = <<>>
    /\ exc = NoneV
    /\ entry_stats = NewStats
    /\ extracted = NoneV
    /\ parse_results = <<>>
    /\ consumed = FALSE

\* What a parallel run leaves alone.
par_frame ==
    <<args, fs, writer, stats, clock, total_records, cur_record, parsed_record,
      processed_content, written, exc, entry_stats, extracted, parse_vars, chain_vars,
      wr, accepted, wlog, stats_log>>

\* process_warc_parallel up to the pool: the chunks are computed and one job
\* is submitted for each.
SplitInput ==
    /\ pc = "parallel"
    /\ LET chunks == GetFileChunks(par.entries, par.num_processes)
       IN  /\ par' = [par EXCEPT !.chunks = chunks]
           /\ workers' = [k \in 1..Len(chunks) |-> NewWorker(chunks[k])]
    /\ pc' = "pool"
    /\ UNCHANGED <<disk, par_frame>>

\* A process of the pool takes the job of chunk k: process_chunk up to its loop.
StartChunk(k) ==
    /\ pc = "pool"
    /\ workers[k].status = "idle"
    /\ Cardinality({j \in 1..Len(workers) : workers[j].status = "running"}) < par.num_processes
    /\ LET r == TextWriterConfigure(workers[k].output_writer, disk,
                                    ChunkPath(workers[k].chunk.chunk_id))
       IN  /\ workers' = [workers EXCEPT ![k].status = "running", ![k].output_writer = r.wr]
           /\ disk' = r.disk
    /\ UNCHANGED <<pc, par, par_frame>>

\* One pass of the loop of process_chunk in the worker of chunk k.
ProcessChunkRecord(k) ==
    /\ pc = "pool"
    /\ workers[k].status = "running"
    /\ workers[k].pos < Len(par.entries)
    /\ LET r == ChunkRecord(workers[k], disk, par.entries, workers[k].pos + 1, chain_beh)
       IN  /\ workers' = [workers EXCEPT ![k] = r.w]
           /\ disk' = r.d
    /\ UNCHANGED <<pc, par, par_frame>>

\* The iterator of the worker of chunk k is exhausted: process_chunk returns.
FinishChunk(k) ==
    /\ pc = "pool"
    /\ workers[k].status = "running"
    /\ workers[k].pos = Len(par.entries)
    /\ workers' = [workers EXCEPT ![k].status = "done"]
    /\ UNCHANGED <<pc, par, disk, par_frame>>

\* The ArchiveIterator of the worker of chunk k raises (the input cannot be
\* read on): the exception leaves process_chunk and the job fails.
FailChunk(k) ==
    /\ pc = "pool"
    /\ workers[k].status = "running"
    /\ workers' = [workers EXCEPT ![k].status = "failed"]
    /\ UNCHANGED <<pc, par, disk, par_frame>>

\* job.get() of the next job returns: its worker has finished.
JobGet ==
    /\ pc = "pool"
    /\ par.got < Len(workers)
    /\ workers[par.got + 1].status = "done"
    /\ par' = [par EXCEPT !.got = @ + 1]
    /\ UNCHANGED <<pc, workers, disk, par_frame>>

\* job.get() of the next job raises what its worker raised: the exception
\* leaves process_warc_parallel and the pool is terminated.
JobGetRaises ==
    /\ pc = "pool"
    /\ par.got < Len(workers)
    /\ workers[par.got + 1].status = "failed"
    /\ pc' = "pool_failed"
    /\ UNCHANGED <<par, workers, disk, par_frame>>

\* The chunk files i = 0 .. n - 1 that exist, read in this order.
RECURSIVE ChunkOutputs(_, _, _)
ChunkOutputs(d, i, n) ==
    IF i >= n THEN <<>>
    ELSE (IF d[ChunkPath(i)] = NoneV THEN <<>> ELSE d[ChunkPath(i)].data)
         \o ChunkOutputs(d, i + 1, n)

\* The chunk outputs are combined and removed although a job.get() has not
\* returned yet.
CombineAtOnce ==
    /\ pc = "pool"
    /\ disk' = [p \in ParPaths |->
                  IF p = CombinedPath THEN File(ChunkOutputs(disk, 0, Len(par.chunks)))
                  ELSE IF \E i \in 0..(Len(par.chunks) - 1) : p = ChunkPath(i) THEN NoneV
                  ELSE disk[p]]
    /\ pc' = "combined"
    /\ UNCHANGED <<par, workers, par_frame>>

\* Every job.get() has returned: the chunk outputs are combined and removed.
Combine ==
    /\ pc = "pool"
    /\ par.got = Len(workers)
    /\ disk' = [p \in ParPaths |->
                  IF p = CombinedPath THEN File(ChunkOutputs(disk, 0, Len(par.chunks)))
                  ELSE IF \E i \in 0..(Len(par.chunks) - 1) : p = ChunkPath(i) THEN NoneV
                  ELSE disk[p]]
    /\ pc' = "combined"
    /\ UNCHANGED <<par, workers, par_frame>>

NextParallel ==
    \/ SplitInput
    \/ \E k \in 1..Len(workers) : StartChunk(k)
    \/ \E k \in 1..Len(workers) : ProcessChunkRecord(k)
    \/ \E k \in 1..Len(workers) : FinishChunk(k)
    \/ \E k \in 1..Len(workers) : FailChunk(k)
    \/ JobGet
    \/ JobGetRaises
    \/ Combine

SpecParallel == InitParallel /\ [][NextParallel]_vars

\* ------------------------------------------------------------------------
\* A ProcessingStats instance on its own: any sequence of calls of its methods.
\* ------------------------------------------------------------------------
\* The input files start_processing is given, and the counts
\* track_bytes_processed is given.
StatsInputs == {[kind |-> "missing"], [kind |-> "empty"], [kind |-> "archive", len |-> 1]}
ByteCounts == {-1, 0, 2}

\* ProcessingStats.set_input_size(input_path) at the time now: the instance
\* after the call and the exception raised.
SetInputSize(st, now, input) ==
    IF input.kind = "missing" THEN [stats |-> st, exc |-> Raise("FileNotFoundError")]
    ELSE LET st1 == [st EXCEPT !.start_time = [t |-> now],
                               !.input_size = IF input.kind = "empty" THEN 0 ELSE input.len]
         IN  IF st1.input_size = 0 THEN [stats |-> st1, exc |-> Raise(ValueErrorV)]
             ELSE [stats |-> st1, exc |-> NoneV]

\* ProcessingStats.track_bytes_processed without the test of the sign.
TrackBytesProcessedUnchecked(st, bytes_count) ==
    [stats |-> [st EXCEPT !.bytes_processed = @ + bytes_count], exc |-> NoneV]

\* ProcessingStats.track_bytes_processed(bytes_count)
TrackBytesProcessed(st, bytes_count) ==
    IF bytes_count < 0 THEN [stats |-> st, exc |-> Raise(ValueErrorV)]
    ELSE [stats |-> [st EXCEPT !.bytes_processed = @ + bytes_count], exc |-> NoneV]

\* ProcessingStats.processing_time: a timedelta, as its number of clock ticks.
ProcessingTime(st) ==
    IF st.start_time = NoneV \/ st.end_time = NoneV THEN NoneV
    ELSE [delta |-> st.end_time.t - st.start_time.t]

\* `not self.processing_time`: None and timedelta(0) are false.
NoProcessingTime(st) == ProcessingTime(st) = NoneV \/ ProcessingTime(st) = [delta |-> 0]

\* ProcessingStats.processing_speed_mb_per_sec and records_per_sec: the
\* quotient as its numerator and denominator.
ProcessingSpeed(st) ==
    IF NoProcessingTime(st) THEN NoneV
    ELSE [num |-> st.input_size, den |-> ProcessingTime(st).delta]
RecordsPerSec(st) ==
    IF NoProcessingTime(st) THEN NoneV
    ELSE [num |-> st.records_processed, den |-> ProcessingTime(st).delta]

InitStats ==
    /\ pc = "stats"
    /\ stats = NewStats
    /\ clock = 0
    /\ stats_log = [calls |-> 0, running |-> FALSE, last |-> NoneV]
    /\ par = NoneV
    /\ workers = <<>>
    /\ WriterIdle
    /\ chain_content = <<>>
    /\ chain_beh = <<>>
    /\ chain_out = NoneV
    /\ cur_record = NoneV
    /\ args = NoArgs
    /\ fs = [output |-> NoneV, out_dir |-> "ok", input |-> [kind |-> "missing"]]
    /\ writer = [kind |-> "OutputWriter", output_path |-> "", first_record |-> TRUE]
    /\ total_records = 0
    /\ parsed_record = NoneV
    /\ processed_content = NoneV
    /\ written = <<>>
    /\ exc = NoneV
    /\ entry_stats = NewStats
    /\ extracted = NoneV
    /\ parse_results = <<>>
    /\ consumed = FALSE

\* What a call on the instance leaves alone.
stats_frame ==
    <<pc, args, fs, writer, total_records, cur_record, parsed_record, processed_content,
      written, exc, entry_stats, extracted, parse_vars, chain_vars, writer_vars, par, workers>>

\* A call is made: it is counted, and what it raised is kept.
StatsCalled(running, raised) ==
    stats_log' = [calls |-> stats_log.calls + 1, running |-> running, last |-> raised]

\* stats.start_processing(input_path): the clock may have ticked.
StatsStart ==
    /\ pc = "stats" /\ stats_log.calls < MaxStatsCalls
    /\ \E input \in StatsInputs, now \in {clock, clock + 1} :
          LET r == SetInputSize(stats, now, input)
          IN  /\ stats' = r.stats
              /\ clock' = now
              /\ StatsCalled(IF r.exc = NoneV THEN TRUE ELSE stats_log.running, r.exc)
    /\ UNCHANGED stats_frame

\* stats.finish_processing()
StatsFinish ==
    /\ pc = "stats" /\ stats_log.calls < MaxStatsCalls
    /\ \E now \in {clock, clock + 1} :
          /\ stats' = [stats EXCEPT !.end_time = [t |-> now]]
          /\ clock' = now
    /\ StatsCalled(FALSE, NoneV)
    /\ UNCHANGED stats_frame

\* stats.track_bytes_processed(n)
StatsTrackBytes ==
    /\ pc = "stats" /\ stats_log.calls < MaxStatsCalls
    /\ \E n \in ByteCounts :
          LET r == TrackBytesProcessed(stats, n)
          IN  stats' = r.stats /\ StatsCalled(stats_log.running, r.exc)
    /\ UNCHANGED <<clock, stats_frame>>

\* stats.track_parsed_record(), track_processed_record(),
\* track_skipped_record() or track_failed_record()
StatsTrackRecord ==
    /\ pc = "stats" /\ stats_log.calls < MaxStatsCalls
    /\ \/ stats' = [stats EXCEPT !.records_parsed = @ + 1]
       \/ stats' = [stats EXCEPT !.records_processed = @ + 1]
       \/ stats' = [stats EXCEPT !.records_skipped = @ + 1]
       \/ stats' = [stats EXCEPT !.records_failed = @ + 1]
    /\ StatsCalled(stats_log.running, NoneV)
    /\ UNCHANGED <<clock, stats_frame>>

\* stats.reset_stats()
StatsReset ==
    /\ pc = "stats" /\ stats_log.calls < MaxStatsCalls
    /\ stats' = NewStats
    /\ StatsCalled(FALSE, NoneV)
    /\ UNCHANGED <<clock, stats_frame>>

NextStats ==
    \/ StatsStart
    \/ StatsFinish
    \/ StatsTrackBytes
    \/ StatsTrackRecord
    \/ StatsReset

SpecStats == InitStats /\ [][NextStats]_vars

\* ------------------------------------------------------------------------
\* Properties
\* ------------------------------------------------------------------------
\* What one entry added to the counters processed, skipped and failed.
EntryDelta ==
    << stats.records_processed - entry_stats.records_processed,
       stats.records_skipped - entry_stats.records_skipped,
       stats.records_failed - entry_stats.records_failed >>

\* The entry read last was accepted by the parser and has been dealt with.
AcceptedEntryDone ==
    /\ pc = "stream"
    /\ stats.records_parsed = entry_stats.records_parsed + 1

\* C1: a failure confined to one entry never terminates process_warc_file:
\* once an entry has been read, nothing but an I/O fault leaves the call,
\* whatever the parser, the processors or the construction and writing of
\* the record raise.
C1_EntryFailureNeverTerminates ==
    (pc = "raised" /\ total_records > 0) => exc = Raise(IOErrorV)

\* C2: for each entry the parser accepts, exactly one of the counters
\* processed, skipped and failed is incremented, by one.
C2_ExactlyOneCounter ==
    AcceptedEntryDone => EntryDelta \in {<<1, 0, 0>>, <<0, 1, 0>>, <<0, 0, 1>>}

\* C3: after a run, records_parsed = records_processed + records_failed +
\* records_skipped.
C3_ParsedIsSum ==
    pc = "returned" =>
        stats.records_parsed =
            stats.records_processed + stats.records_failed + stats.records_skipped

\* The JSON array in the file has been closed.
JsonClosed(file) ==
    /\ file # NoneV
    /\ Len(file.data) > 0
    /\ file.data[Len(file.data)] = Lit("\n]")

\* C4: when process_warc_file is left, by its return or by an I/O fault out
\* of the streaming, the writer has been finalized and the clock of the
\* stats has been stopped.
C4_FinalizedOnEveryExit ==
    (pc = "returned" \/ (pc = "raised" /\ exc = Raise(IOErrorV) /\ stats.start_time # NoneV))
        => /\ stats.end_time # NoneV
           /\ writer.kind = "JsonWriter" => JsonClosed(fs.output)

\* C5: an entry is read only when the one before it has been parsed,
\* extracted and written; and the records written are in the order of their
\* entries in the input.
C5_SequentialInInputOrder ==
    /\ [](\A i, j \in 1..Len(written) : i < j => written[i].src < written[j].src)
    /\ [][total_records' # total_records =>
            /\ cur_record = NoneV /\ parsed_record = NoneV /\ processed_content = NoneV
            /\ total_records' = total_records + 1
            /\ \A i \in 1..Len(written) : written[i].src <= total_records]_vars

\* Two records are in the output, of entries with a skipped or failed entry
\* between them.
C5_Witness ==
    /\ Len(written) = 2
    /\ written[1].src = 1
    /\ written[2].src = 3

\* C6: for every parsed entry for which a processor returns text,
\* write_record is called with that text; and at the end of the run
\* records_processed is the number of records written.
C6_ExtractedTextIsWritten ==
    /\ extracted # NoneV => (pc = "write" /\ processed_content = extracted)
    /\ pc = "returned" => stats.records_processed = Len(written)

\* Nothing has been touched: the output file that existed is as it was, the
\* writer is not configured, the clock has not started, no counter has
\* changed, no entry has been read.
Untouched ==
    /\ fs.output = File(<<Lit("existing content")>>)
    /\ writer.output_path = ""
    /\ stats = NewStats
    /\ total_records = 0
    /\ written = <<>>

\* The call that is made has an output path that exists, and no overwrite.
CallOnExistingOutput ==
    /\ pc = "idle"
    /\ pc' # "idle"
    /\ fs.output # NoneV
    /\ args'.output_path # ""
    /\ ~args'.overwrite

\* C7 as stated: if the output path exists and overwrite was not requested,
\* process_warc_file fails with FileExistsError and nothing has been touched.
C7_FailsWithFileExistsError ==
    [][CallOnExistingOutput =>
          (pc' = "raised" /\ exc' = Raise("FileExistsError") /\ Untouched')]_vars

\* C7, amended: if the output path exists and overwrite was not requested,
\* process_warc_file fails, with ValueError if no input path was given and
\* with FileExistsError otherwise, and nothing has been touched, then or
\* later.
C7_FailsBeforeAnythingIsTouched ==
    /\ [][CallOnExistingOutput =>
            /\ pc' = "raised"
            /\ exc' = IF args'.input_path = "" THEN Raise(ValueErrorV)
                      ELSE Raise("FileExistsError")
            /\ Untouched']_vars
    /\ [](exc = Raise("FileExistsError") => Untouched)

\* The call has failed with FileExistsError and the writer has been destroyed.
C7_Witness ==
    /\ pc = "destroyed"
    /\ exc = Raise("FileExistsError")
    /\ args.input_path # ""
    /\ ~args.overwrite

\* C8: an entry whose record type is not "response" changes no counter.
C8_NonResponseNeverCounted ==
    [][(pc = "parse" /\ cur_record.rec_type # "response") => stats' = stats]_vars

\* C9: WarcRecordParser.parse never raises.
C9_ParseNeverRaises ==
    pc = "parsed" => exc = NoneV

\* The entry is a response with HTTP status 200 and the headers
\* WARC-Record-ID, WARC-Target-URI and WARC-Date.
RequiredPresent(e) ==
    /\ e.rec_type = "response"
    /\ e.http = Str("200")
    /\ e.rec_headers # NoneV
    /\ e.record_id # NoneV
    /\ e.target_uri # NoneV
    /\ e.date # NoneV

\* The values of the entry can be constructed and its payload can be read:
\* the URI has a scheme and a host, the date is written as
\* %Y-%m-%dT%H:%M:%SZ, the Content-Type is absent or is type/subtype, and the
\* payload stream gives at least one byte.
WellFormed(e) ==
    /\ e.target_uri.scheme # "" /\ e.target_uri.netloc # ""
    /\ e.date.fmt = "%Y-%m-%dT%H:%M:%SZ"
    /\ e.content_type # NoneV =>
          /\ Len(e.content_type.parts) = 2
          /\ e.content_type.parts[1] # "" /\ e.content_type.parts[2] # ""
    /\ e.stream.kind = "bytes"
    /\ e.stream.data # <<>>

\* parse returned a Record with the URI, the timestamp, the content type (in
\* lower case; text/html when the entry has none) and the decoded text of
\* the entry.
RecordPreserves(e) ==
    /\ exc = NoneV
    /\ parsed_record # NoneV
    /\ parsed_record.target_uri.uri = e.target_uri
    /\ parsed_record.date.dt = e.date.fields
    /\ LET ct == IF e.content_type = NoneV THEN CtHtml ELSE e.content_type
       IN  /\ parsed_record.content_type.main_type = Lower(ct.parts[1])
           /\ parsed_record.content_type.subtype = Lower(ct.parts[2])
    /\ parsed_record.content = Decode(e.stream.data)

NotResponseOrNot200(e) ==
    \/ e.rec_type # "response"
    \/ e.http # NoneV /\ e.http # Str("200")

\* C11: for every entry that is not a response, or whose HTTP status is
\* present and is not 200, parse returns skip, on every call made with it.
C11_NonResponseOrNon200Skipped ==
    NotResponseOrNot200(cur_record) =>
        \A i \in 1..Len(parse_results) : parse_results[i] = NoneV

\* parse has been called twice on a response with status 404 that has no
\* header block, and has skipped it twice.
C11_Witness ==
    /\ pc = "parsed_again"
    /\ cur_record.rec_type = "response"
    /\ cur_record.http = Str("404")
    /\ cur_record.rec_headers = NoneV
    /\ parse_results = <<NoneV, NoneV>>

\* A header that is required is not in the header block of the response.
RequiredAbsent(e) ==
    /\ e.rec_type = "response"
    /\ e.rec_headers # NoneV
    /\ (e.record_id = NoneV \/ e.target_uri = NoneV \/ e.date = NoneV)

\* C12: if WARC-Record-ID, WARC-Target-URI or WARC-Date is absent from a
\* response entry, parse returns skip and produces no Record.
C12_RequiredAbsentSkipped ==
    (pc = "parsed" /\ RequiredAbsent(cur_record)) =>
        (exc = NoneV /\ parsed_record = NoneV)

\* The run over the processors is over.
ProcessorsDone == pc \in {"chain_done", "loop_done"}

\* process was called on processor i.
Invoked(i) == \E k \in 1..Len(chain_out.calls) : chain_out.calls[k] = ProcessCall(i)

\* Processor i returns text when process is called on it.
ReturnsText(i) ==
    /\ ~IsRaise(chain_beh[i].out)
    /\ chain_beh[i].out # NoneV
    /\ chain_beh[i].out.text # <<>>

C15_AbortOnFailure ==
    ProcessorsDone =>
        \A i \in 1..NumProcessors :
            (Invoked(i) /\ IsRaise(chain_beh[i].out)) =>
                /\ \A j \in 1..NumProcessors : j > i => ~Invoked(j)
                /\ chain_out.exc = NoneV
                /\ chain_out.result = NoneV

\* The elements json.load gives for the records in seq.
JsonOf(seq) == [elements |-> [k \in 1..Len(seq) |-> RecordJson(seq[k])]]

\* C16: after one configure(path), any number n of write_record calls that
\* return, and the finalization of the JsonWriter, the file is a JSON array
\* of exactly the n records written, in the order written; [] when n = 0.
C16_JsonArrayOfRecordsWritten ==
    (/\ pc = "writer_destroyed"
     /\ wr.kind = "JsonWriter"
     /\ wlog.configures = 1 /\ wlog.configured = 1)
        => JsonLoad(disk[wr.output_path.s]) = JsonOf(accepted[wr.output_path.s])

\* After one configure, three write_record calls, of which the second raised,
\* and its finalization, the file of the JsonWriter is an array of two records.
C16_Witness ==
    /\ pc = "writer_destroyed"
    /\ wr.kind = "JsonWriter"
    /\ wlog.configures = 1 /\ wlog.configured = 1
    /\ wlog.writes = 3
    /\ Len(accepted["/out/p1"]) = 2
    /\ accepted["/out/p1"][1].processed_content = <<"b">>
    /\ accepted["/out/p1"][2].processed_content = <<"a">>
    /\ wlog.last = NoneV
    /\ JsonLoad(disk["/out/p1"]) = JsonOf(accepted["/out/p1"])

\* A step in which write_record of a text writer returned.
TextRecordWritten ==
    /\ pc = "writer" /\ wr.kind # "JsonWriter"
    /\ wlog'.writes = wlog.writes + 1
    /\ wlog'.last = NoneV

\* The lines that step added to the file, and the record it wrote.
WrittenUnit ==
    SubSeq(disk'[wr.output_path.s].data, Len(disk[wr.output_path.s].data) + 1,
           Len(disk'[wr.output_path.s].data))
WrittenRecord == accepted'[wr.output_path.s][Len(accepted'[wr.output_path.s])]

\* The header block of a unit: the lines after the version line and before
\* the first blank line.
HeaderEnd(unit) ==
    IF \E k \in 1..Len(unit) : unit[k] = BlankLine
    THEN CHOOSE k \in 1..Len(unit) :
             unit[k] = BlankLine /\ \A j \in 1..(k - 1) : unit[j] # BlankLine
    ELSE Len(unit) + 1
HeaderBlock(unit) == SubSeq(unit, 2, HeaderEnd(unit) - 1)
IsHdr(line) == "h" \in DOMAIN line
ContentLengthLines(unit) ==
    { k \in 1..Len(HeaderBlock(unit)) :
        /\ IsHdr(HeaderBlock(unit)[k])
        /\ Lower(HeaderBlock(unit)[k].h) = "content-length" }

\* C17: every unit a text writer writes has a Content-Length header, and every
\* Content-Length line of the unit carries the UTF-8 byte length of the
\* extracted text, none the length of the original payload.
C17_ContentLengthIsTextLength ==
    [][ TextRecordWritten =>
          /\ ContentLengthLines(WrittenUnit) # {}
          /\ \A k \in ContentLengthLines(WrittenUnit) :
                HeaderBlock(WrittenUnit)[k].v = [n |-> Utf8Len(WrittenRecord.processed_content)]
      ]_vars

\* Reading a unit back: the value of the first line of the header block with
\* the name given, None if there is none.
HeaderValue(unit, name) ==
    LET hb == HeaderBlock(unit)
        at == { k \in 1..Len(hb) : IsHdr(hb[k]) /\ hb[k].h = name }
    IN  IF at = {} THEN NoneV
        ELSE hb[CHOOSE k \in at : \A j \in at : k <= j].v

\* The text of a unit: the lines after the first blank line and before the
\* version line that closes the unit, less the blank line src/plain_text_writer.py
\* writes ahead of that version line.
ClosingMarker(unit) ==
    CHOOSE k \in 1..Len(unit) :
        /\ unit[k] = VersionLine
        /\ \A j \in (k + 1)..Len(unit) : unit[j] # VersionLine
UnitText(kind, unit) ==
    LET last == ClosingMarker(unit) - (IF kind = "PlainTextWriter" THEN 2 ELSE 1)
        body == SubSeq(unit, HeaderEnd(unit) + 1, last)
    IN  [k \in 1..Len(body) |-> body[k].lit]

\* The uri, timestamp, content type and text read back from a unit.
ParseUnit(kind, unit) ==
    LET uri == HeaderValue(unit, "WARC-Target-URI")
        date == HeaderValue(unit, "WARC-Date")
        ct == HeaderValue(unit, "Content-Type")
    IN  [target_uri |-> IF uri = NoneV THEN NoneV ELSE WarcUri(uri),
         date |-> IF date = NoneV THEN NoneV ELSE Strptime(date),
         content_type |-> IF ct = NoneV THEN NoneV ELSE ContentType(ct),
         text |-> UnitText(kind, unit)]

\* C18: the unit a text writer writes for a record, read back, gives the
\* uri, the timestamp, the content type and the extracted text of the record.
C18_RoundTrip ==
    [][ TextRecordWritten =>
          ParseUnit(wr.kind, WrittenUnit) =
              [target_uri |-> WrittenRecord.record.target_uri,
               date |-> WrittenRecord.record.date,
               content_type |-> WrittenRecord.record.content_type,
               text |-> WrittenRecord.processed_content]
      ]_vars

\* Steps in which write_record, and configure, were called.
WriteCalled == pc = "writer" /\ wlog'.writes = wlog.writes + 1
ConfigureCalled == pc = "writer" /\ wlog'.configures = wlog.configures + 1

\* C19: write_record on a writer no configure call of which has succeeded
\* raises ValueError and leaves every file as it was, and a configure call
\* that fails on such a writer leaves it without an output path.
C19_UnconfiguredWriterRejectsWrite ==
    [][ /\ (WriteCalled /\ wlog.configured = 0) =>
              (wlog'.last = Raise(ValueErrorV) /\ disk' = disk)
        /\ (ConfigureCalled /\ wlog.configured = 0 /\ wlog'.last # NoneV) =>
              wr'.output_path = NoneV
      ]_vars

\* The workers that gave the record at position n of the input to the parser,
\* and those that wrote its text to their chunk file.
HandledBy(n) ==
    { k \in 1..Len(workers) : \E j \in 1..Len(workers[k].handled) : workers[k].handled[j] = n }
WrittenBy(n) ==
    { k \in 1..Len(workers) : \E j \in 1..Len(workers[k].wrote) : workers[k].wrote[j] = n }
ResponsePositions ==
    { n \in 1..Len(par.entries) : par.entries[n].rec_type = "response" }

\* A step of the worker of chunk k.
WorkerStep(k) == workers'[k] # workers[k]

\* C20: when every worker has finished, each response record of the input was
\* handled by exactly one worker and written by at most one, each of them at
\* most once; and a step of a worker changes no file but its own chunk file.
C20_ResponseRecordsPartitioned ==
    /\ [](pc = "combined" =>
            \A n \in ResponsePositions :
               /\ Cardinality(HandledBy(n)) = 1
               /\ Cardinality(WrittenBy(n)) <= 1
               /\ \A k \in 1..Len(workers) :
                     /\ Cardinality({j \in 1..Len(workers[k].handled) :
                                        workers[k].handled[j] = n}) <= 1
                     /\ Cardinality({j \in 1..Len(workers[k].wrote) :
                                        workers[k].wrote[j] = n}) <= 1)
    /\ [][ pc = "pool" /\ pc' = "pool" =>
             \A k \in 1..Len(workers) :
                WorkerStep(k) =>
                   \A p \in ParPaths :
                      p # ChunkPath(workers[k].chunk.chunk_id) => disk'[p] = disk[p] ]_vars

\* The lines of the chunk files 0 .. n - 1 in ascending order.
RECURSIVE ShardLines(_)
ShardLines(n) ==
    IF n = 0 THEN <<>>
    ELSE ShardLines(n - 1) \o disk[ChunkPath(n - 1)].data

\* C21: the combined output is written only in a step before which every
\* worker has finished, it is then the chunk files in ascending order of
\* chunk id, and there is no combined output in a run a worker of which failed.
C21_CombinedAfterBarrier ==
    /\ [][ disk'[CombinedPath] # disk[CombinedPath] =>
             /\ \A k \in 1..Len(workers) : workers[k].status = "done"
             /\ disk'[CombinedPath] = File(ShardLines(Len(workers))) ]_vars
    /\ []((pc \in {"pool", "pool_failed", "combined"}
            /\ \E k \in 1..Len(workers) : workers[k].status = "failed")
          => disk[CombinedPath] = NoneV)

\* Two workers finished with chunk files of different lengths, and the
\* combined output holds them.
C21_Witness ==
    /\ pc = "combined"
    /\ Len(workers) >= 2
    /\ Len(workers[1].handled) # Len(workers[2].handled)
    /\ Len(disk[CombinedPath].data) >= 4
    /\ disk[ChunkPath(0)] = NoneV

\* The number of bytes of a content in UTF-8.
RECURSIVE Utf8Bytes(_)
Utf8Bytes(content) ==
    IF content = <<>> THEN 0
    ELSE (IF Head(content) = "é" THEN 2 ELSE 1) + Utf8Bytes(Tail(content))

\* C22: content_length of a record is the UTF-8 byte length of the content
\* the record was constructed with, before and after the processors ran on it.
C22_ContentLengthIsConstructedByteLength ==
    /\ [](pc = "chain" =>
            ContentLength([content |-> chain_content]) = Utf8Bytes(chain_content))
    /\ [][ pc = "chain" =>
             ContentLength([content |-> chain_content']) = Utf8Bytes(chain_content) ]_vars

\* C23: while a run of a ProcessingStats instance has been started and not
\* finished, processing_time, the processing speed and records_per_sec are None.
C23_DerivedMetricsNoneWhileRunning ==
    (pc = "stats" /\ stats_log.running) =>
        /\ ProcessingTime(stats) = NoneV
        /\ ProcessingSpeed(stats) = NoneV
        /\ RecordsPerSec(stats) = NoneV

\* The five counters of a ProcessingStats instance.
Counters(st) ==
    <<st.records_parsed, st.records_processed, st.records_skipped, st.records_failed,
      st.bytes_processed>>

\* C24: no call but reset_stats decreases a counter, and a call that raises
\* ValueError (track_bytes_processed with a negative count, start_processing
\* on an empty file) leaves the counters as they were.
C24_CountersMonotonic ==
    [][ pc = "stats" =>
          /\ stats' # NewStats => \A i \in 1..5 : Counters(stats')[i] >= Counters(stats)[i]
          /\ (stats_log'.calls # stats_log.calls /\ stats_log'.last = Raise(ValueErrorV))
                => Counters(stats') = Counters(stats) ]_vars

\* track_bytes_processed was called with a negative count after bytes had
\* been counted.
C24_Witness ==
    /\ pc = "stats"
    /\ stats_log.last = Raise(ValueErrorV)
    /\ stats.start_time = NoneV
    /\ stats.bytes_processed = 2
    /\ stats.records_parsed = 1

\* The phases of a process_warc_file call: Configuring (the writer is
\* configured, the clock started), Streaming (the entries are read, parsed,
\* extracted and written), Finalizing, Done, and the writer destroyed.
Phase(p) ==
    CASE p = "idle" -> 0
      [] p \in {"configure", "start"} -> 1
      [] p \in {"stream", "parse", "extract", "write"} -> 2
      [] p = "finish" -> 3
      [] p \in {"returned", "raised"} -> 4
      [] p = "destroyed" -> 5

\* C25: a process_warc_file call never goes back to an earlier phase, an
\* entry is read and handled only with the writer configured and the clock
\* started, and nothing is written once the run is finalized.
C25_PhasesInOrder ==
    /\ [][Phase(pc') >= Phase(pc)]_vars
    /\ [](Phase(pc) = 2 => (writer.output_path # "" /\ stats.start_time # NoneV))
    /\ [][Phase(pc) >= 3 => written' = written]_vars
    /\ [][stats.end_time # NoneV => (written' = written /\ Phase(pc) >= 4)]_vars

\* A run over two entries that wrote a record and returned.
C25_Witness ==
    /\ pc = "returned"
    /\ total_records >= 2
    /\ Len(written) >= 1
    /\ stats.end_time # NoneV

\* The processors that can process the record, those of them that return a
\* result (a str, not None), and the number of calls of process on processor i.
Matching == { i \in 1..NumProcessors : chain_beh[i].can }
GivesResult(i) == chain_beh[i].can /\ ~IsRaise(chain_beh[i].out) /\ chain_beh[i].out # NoneV
ProcessCalls(i) ==
    Cardinality({ k \in 1..Len(chain_out.calls) : chain_out.calls[k] = ProcessCall(i) })
LastResult ==
    chain_beh[CHOOSE i \in 1..NumProcessors :
                 GivesResult(i) /\ \A j \in 1..NumProcessors : GivesResult(j) => j <= i].out
CallsInListOrder ==
    \A k, l \in 1..Len(chain_out.calls) :
        k < l => chain_out.calls[k].i <= chain_out.calls[l].i

FailedOnInput ==
    /\ pc = "raised"
    /\ \/ exc = Raise("FileNotFoundError")
       \/ exc = Raise(ValueErrorV) /\ fs.input.kind = "empty" /\ stats.start_time # NoneV

\* C27: a call that failed on a missing or empty input has not created the
\* output file nor changed the one there was, so that a call with the same
\* output path and no overwrite passes the test of the output path.
C27_FailedInputLeavesNoOutput ==
    FailedOnInput =>
        /\ fs.output \in {NoneV, File(<<Lit("existing content")>>)}
        /\ ~args.overwrite => ~OutputExistsCheck(fs.output, FALSE)

\* C28: after configure(p1), write_record calls, configure(p2) on another
\* path, further write_record calls and the finalization of the JsonWriter,
\* each of the two files is a JSON array of exactly the records written while
\* it was the destination.
C28_ReusedJsonWriter ==
    (/\ pc = "writer_destroyed"
     /\ wr.kind = "JsonWriter"
     /\ wlog.configures = 2 /\ wlog.configured = 2
     /\ \A p \in GoodPaths : disk[p] # NoneV)
        => \A p \in GoodPaths : JsonLoad(disk[p]) = JsonOf(accepted[p])

\* C29: WarcRecordProcessorChain.process leaves the record as it was given:
\* record.content after the call is record.content before it.
C29_ChainLeavesRecordUnchanged ==
    [][(pc = "chain" /\ pc' = "chain_done") => chain_content' = chain_content]_vars

\* The chunks cover the response records 0 .. total - 1 with non-empty
\* ranges, one after the other, numbered from 0.
ChunksPartition(chunks, total) ==
    /\ \A k \in 1..Len(chunks) :
          /\ chunks[k].chunk_id = k - 1
          /\ chunks[k].record_count >= 1
          /\ chunks[k].start_record =
                IF k = 1 THEN 0
                ELSE chunks[k - 1].start_record + chunks[k - 1].record_count
    /\ IF chunks = <<>> THEN total = 0
       ELSE chunks[Len(chunks)].start_record + chunks[Len(chunks)].record_count = total

\* C30: the chunks get_file_chunks returned are such a partition, of no more
\* ranges than num_chunks.
C30_ChunksPartitionInput ==
    pc \in {"pool", "pool_failed", "combined"} =>
        /\ ChunksPartition(par.chunks, Cardinality(ResponsePositions))
        /\ Len(par.chunks) <= par.num_processes

====
